---------------------------- MODULE Spec2Model ----------------------------
(* The WMS protocol gateway of backend/wms-server/main.go as a state       *)
(* machine: requests arrive on a fixed number of connections, wmsHandler   *)
(* dispatches them, handleGetMap translates the query into one GET to the  *)
(* render backend and relays what comes back.  With it the browser client  *)
(* of frontend/js: the animation, its controls, the map and the start-up   *)
(* of the page, whose pending timeouts run in the order they were set.     *)
(*                                                                         *)
(* Representation of values                                                *)
(*   - a string the code splits or trims (dataset path, LAYERS, BBOX) is a *)
(*     sequence of characters / tokens, "" being << >>;                    *)
(*   - a string the code only tests for emptiness and forwards is a TLA+   *)
(*     string;                                                             *)
(*   - a float64 is a signed decimal with 7 fractional digits              *)
(*     [s |-> 1 or -1, w |-> whole part, f |-> fraction in 1e-7], cut      *)
(*     towards zero;                                                       *)
(*   - the text of an integer parameter is [kind, val] (see Atoi).         *)
EXTENDS Integers, Naturals, Sequences, FiniteSets, TLC

(***************************************************************************)
(* Bounds of the model                                                     *)
(***************************************************************************)
NumConns == 2        \* connections handled concurrently
MaxPathLen == 5      \* characters of a dataset path
MaxFields == 5       \* comma-separated fields of a BBOX value
MaxClock == 2        \* half-hours the wall clock may advance
MaxTimes == 3        \* time steps a time list may hold
MaxPending == 2      \* timeouts pending when showStatus is called from outside
MaxSpinners == 1     \* hideLoading timeouts pending at once

(***************************************************************************)
(* Program constants                                                       *)
(***************************************************************************)
DefaultSize == 256                   \* width/height default
StatusOK == 200
StatusBadRequest == 400
StatusBadGateway == 502
MaxInt == 2147483647                 \* stands for the largest int (2^63-1)
MinInt == -2147483647                \* stands for the smallest int (-2^63)

Conn == 1..NumConns

(***************************************************************************)
(* Library functions the handlers call, modelled by what they compute      *)
(***************************************************************************)

\* index of the first occurrence of c in s, 0 when there is none
IndexOf(s, c) ==
    IF \E i \in 1..Len(s) : s[i] = c
    THEN CHOOSE i \in 1..Len(s) : s[i] = c /\ \A j \in 1..(i-1) : s[j] # c
    ELSE 0

\* index of the last occurrence of c in s, 0 when there is none
LastIndexOf(s, c) ==
    IF \E i \in 1..Len(s) : s[i] = c
    THEN CHOOSE i \in 1..Len(s) : s[i] = c /\ \A j \in (i+1)..Len(s) : s[j] # c
    ELSE 0

\* strings.Split(s, sep) for a one-character separator: n separators give
\* n+1 parts, empty parts included; Split("", sep) is one empty part
RECURSIVE Split(_, _)
Split(s, sep) ==
    LET i == IndexOf(s, sep)
    IN  IF i = 0 THEN << s >>
        ELSE << SubSeq(s, 1, i-1) >> \o Split(SubSeq(s, i+1, Len(s)), sep)

\* path.Base: "" gives ".", trailing slashes are dropped, then everything up
\* to the last slash; a path of slashes only gives "/"
RECURSIVE StripTrailingSlashes(_)
StripTrailingSlashes(p) ==
    IF Len(p) > 0 /\ p[Len(p)] = "/"
    THEN StripTrailingSlashes(SubSeq(p, 1, Len(p)-1))
    ELSE p

Base(p) ==
    IF p = << >> THEN << "." >>
    ELSE LET t == StripTrailingSlashes(p)
             u == SubSeq(t, LastIndexOf(t, "/") + 1, Len(t))
         IN  IF u = << >> THEN << "/" >> ELSE u

\* The text of an integer query parameter:
\*   kind "empty"  the parameter is absent or empty
\*   kind "int"    a decimal integer literal of value val, within int range
\*   kind "bigpos" a decimal integer literal above the int range
\*   kind "bigneg" a decimal integer literal below the int range
\*   kind "junk"   anything else (abc, 12.5, 1e3, " 7")
IntText(k, v) == [kind |-> k, val |-> v]

\* strconv.Atoi with the error dropped (width, _ := ...): the value on
\* success, 0 on a syntax error, the nearest int on a range error
Atoi(t) ==
    CASE t.kind = "int"    -> t.val
      [] t.kind = "bigpos" -> MaxInt
      [] t.kind = "bigneg" -> MinInt
      [] OTHER             -> 0

\* strconv.Itoa: the decimal text of n
Itoa(n) == IntText("int", n)

\* A decimal value: sign, whole part, fraction in units of 1e-7
Dec(s, w, f) == [s |-> s, w |-> w, f |-> f]
Zero == Dec(1, 0, 0)

\* A token of a BBOX value: the separator, a numeric literal, or text that
\* is no number
Comma == [kind |-> "sep", num |-> Zero]
NumTok(d) == [kind |-> "num", num |-> d]
JunkTok == [kind |-> "junk", num |-> Zero]

\* strconv.ParseFloat(field, 64) with the error dropped: the value of a
\* numeric literal, 0 for anything else (the empty field included)
ParseFloat(field) ==
    IF Len(field) = 1 /\ field[1].kind = "num" THEN field[1].num ELSE Zero

\* fmt's %f: six fractional digits, rounded to nearest
FormatF(x) ==
    LET u == (x.f + 5) \div 10
    IN  IF u = 1000000 THEN [s |-> x.s, w |-> x.w + 1, u |-> 0]
        ELSE [s |-> x.s, w |-> x.w, u |-> u]

\* Upper-case form of the CRS identifiers of the model
Upper(c) ==
    CASE c = "epsg:3857"   -> "EPSG:3857"
      [] c = "Epsg:900913" -> "EPSG:900913"
      [] OTHER             -> c

\* strings.EqualFold
EqualFold(a, b) == Upper(a) = Upper(b)

(***************************************************************************)
(* The request, as the handlers read it: the route, the {dataset} path     *)
(* variable and r.URL.Query().Get(...) of each parameter ("" when absent)  *)
(***************************************************************************)
EmptyInt == IntText("empty", 0)

DefaultQuery ==
    [route |-> "wms", REQUEST |-> "GetMap", dataset |-> << >>,
     WIDTH |-> EmptyInt, HEIGHT |-> EmptyInt,
     BBOX |-> << >>, CRS |-> "", SRS |-> "", LAYERS |-> << >>,
     TIME |-> "", COLORSCALERANGE |-> "", STYLES |-> "", PALETTE |-> "",
     GAMMA |-> "", gamma |-> ""]

HealthRequest == [DefaultQuery EXCEPT !.route = "health", !.REQUEST = ""]

(***************************************************************************)
(* wmsHandler: the switch on REQUEST                                       *)
(***************************************************************************)
\* a switch that ignores the case of REQUEST
switchCaseFold(request) ==
    CASE request = "GetCapabilities"              -> "GetCapabilities"
      [] request \in { "GetMap", "getmap" }       -> "GetMap"
      [] request = "GetFeatureInfo"               -> "GetFeatureInfo"
      [] OTHER                                    -> "default"

switchCase(request) ==
    CASE request = "GetCapabilities" -> "GetCapabilities"
      [] request = "GetMap"          -> "GetMap"
      [] request = "GetFeatureInfo"  -> "GetFeatureInfo"
      [] OTHER                       -> "default"

(***************************************************************************)
(* handleGetMap: the translation of the query into the render call         *)
(***************************************************************************)
width(q) == LET w == Atoi(q.WIDTH) IN IF w <= 0 THEN DefaultSize ELSE w

height(q) == LET h == Atoi(q.HEIGHT) IN IF h <= 0 THEN DefaultSize ELSE h

\* a path of one segment taken as the layer too
pathLayerFirst(dataset) ==
    LET parts == Split(dataset, "/")
    IN  IF dataset = << >> THEN << >>
        ELSE IF Len(parts) >= 2 THEN parts[Len(parts) - 1]
        ELSE parts[1]

\* layer and file as the dataset path gives them (before the LAYERS
\* fallback and the base-name normalisation)
pathLayer(dataset) ==
    LET parts == Split(dataset, "/")
    IN  IF dataset # << >> /\ Len(parts) >= 2 THEN parts[Len(parts) - 1]
        ELSE << >>

pathFile(dataset) ==
    LET parts == Split(dataset, "/")
    IN  IF dataset = << >> THEN << >>
        ELSE IF Len(parts) >= 2 THEN parts[Len(parts)]
        ELSE parts[1]

\* the layer of the path only, LAYERS never consulted
layerNoFallback(dataset, q) == pathLayer(dataset)

\* LAYERS consulted only when the dataset path is empty
layerFallbackOnEmptyPath(dataset, q) ==
    IF dataset = << >> THEN q.LAYERS ELSE pathLayer(dataset)

layer(dataset, q) ==
    LET l == pathLayer(dataset)
    IN  IF l = << >> /\ q.LAYERS # << >> THEN q.LAYERS ELSE l

file(dataset) ==
    LET f == pathFile(dataset)
    IN  IF f # << >> THEN Base(f) ELSE f

\* SRS taken first, CRS only when SRS is empty
crsPreferSRS(q) == IF q.SRS = "" THEN q.CRS ELSE q.SRS

crs(q) == IF q.CRS = "" THEN q.SRS ELSE q.CRS

IsWebMercator(c) == EqualFold(c, "EPSG:3857") \/ EqualFold(c, "EPSG:900913")

\* (mx / 6378137.0) * 180.0 / math.Pi, the float64 result cut to 7 digits
m2lon(mx) ==
    CASE mx = Zero                -> Zero
      [] mx = Dec(1, 2000000, 0)  -> Dec(1, 17, 9663056)
      [] mx = Dec(-1, 5000000, 0) -> Dec(-1, 44, 9157642)
      [] mx = Dec(1, 12, 3456789) -> Dec(1, 0, 1109)
      [] mx = Dec(-1, 13627666, 9966701) -> Dec(-1, 122, 4194154)
      [] mx = Dec(1, 1492232, 6533872)   -> Dec(1, 13, 4049539)
      [] mx = Dec(1, 20037508, 3427892)  -> Dec(1, 179, 9999999)

\* a latitude taken linear in the northing, as the longitude is in the easting
m2latLinear(my) ==
    CASE my = Dec(-1, 4011201, 2884641) -> Dec(-1, 36, 332342)
      [] my = Dec(1, 6894701, 87227)    -> Dec(1, 61, 9361529)
      [] my = Dec(1, 20037508, 2398060) -> Dec(1, 179, 9999990)
      [] OTHER -> m2lon(my)

\* (2*math.Atan(math.Exp(my/6378137.0)) - math.Pi/2) * 180.0 / math.Pi,
\* the float64 result cut to 7 digits
m2lat(my) ==
    CASE my = Zero                -> Zero
      [] my = Dec(1, 2000000, 0)  -> Dec(1, 17, 6789142)
      [] my = Dec(-1, 5000000, 0) -> Dec(-1, 40, 9162744)
      [] my = Dec(1, 12, 3456789) -> Dec(1, 0, 1109)
      [] my = Dec(-1, 4011201, 2884641) -> Dec(-1, 33, 8688196)
      [] my = Dec(1, 6894701, 87227)    -> Dec(1, 52, 5200065)
      [] my = Dec(1, 20037508, 2398060) -> Dec(1, 85, 511287)

\* the conversion applied to the first corner only
bboxNumbersMinOnly(parts, c) ==
    LET minx == ParseFloat(parts[1])
        miny == ParseFloat(parts[2])
        maxx == ParseFloat(parts[3])
        maxy == ParseFloat(parts[4])
    IN  IF IsWebMercator(c)
        THEN << m2lon(minx), m2lat(miny), maxx, maxy >>
        ELSE << minx, miny, maxx, maxy >>

\* the four numbers handed to Sprintf: converted when the CRS is Web
\* Mercator, as parsed otherwise
bboxNumbers(parts, c) ==
    LET minx == ParseFloat(parts[1])
        miny == ParseFloat(parts[2])
        maxx == ParseFloat(parts[3])
        maxy == ParseFloat(parts[4])
    IN  IF IsWebMercator(c)
        THEN << m2lon(minx), m2lat(miny), m2lon(maxx), m2lat(maxy) >>
        ELSE << minx, miny, maxx, maxy >>

\* bbox4326: "%f,%f,%f,%f" of the four numbers, << >> when BBOX is empty or
\* does not split into four fields
bbox4326(q) ==
    LET parts == Split(q.BBOX, Comma)
    IN  IF q.BBOX # << >> /\ Len(parts) = 4
        THEN LET n == bboxNumbers(parts, crs(q))
             IN  << FormatF(n[1]), FormatF(n[2]), FormatF(n[3]), FormatF(n[4]) >>
        ELSE << >>

gammaParam(q) == IF q.GAMMA = "" THEN q.gamma ELSE q.GAMMA

\* a Set that is not guarded
SetAlways(present, k, val) == k :> val

\* v.Set(k, val) when the value is present
SetIf(present, k, val) == IF present THEN k :> val ELSE << >>

\* styles and palette both forwarded when both are given
styleValuesBoth(q) ==
       SetIf(q.STYLES # "", "styles", q.STYLES)
    @@ SetIf(q.PALETTE # "", "palette", q.PALETTE)

\* if styles != "" { Set styles } else if palette != "" { Set palette }
styleValues(q) ==
       SetIf(q.STYLES # "", "styles", q.STYLES)
    @@ SetIf(q.STYLES = "" /\ q.PALETTE # "", "palette", q.PALETTE)

\* url.Values of the render call: a parameter is in the domain iff it was Set
renderValues(dataset, q) ==
       SetIf(layer(dataset, q) # << >>, "layer", layer(dataset, q))
    @@ SetIf(file(dataset) # << >>, "file", file(dataset))
    @@ ("width" :> Itoa(width(q)))
    @@ ("height" :> Itoa(height(q)))
    @@ SetIf(bbox4326(q) # << >>, "bbox", bbox4326(q))
    @@ SetIf(q.COLORSCALERANGE # "", "colorscalerange", q.COLORSCALERANGE)
    @@ SetIf(q.TIME # "", "time", q.TIME)
    @@ styleValues(q)
    @@ SetIf(gammaParam(q) # "", "gamma", gammaParam(q))

(***************************************************************************)
(* State                                                                   *)
(***************************************************************************)
VARIABLES
    clock,      \* wall clock, in half-hours
    config,     \* the process-wide Config, set by init()
    pc,         \* per connection: "idle", "received", "awaitBackend", "done"
    req,        \* per connection: the request being handled
    handler,    \* per connection: the handler wmsHandler dispatched to
    outbound,   \* per connection: url.Values of the GET sent to the backend
    calls,      \* per connection: GETs sent to the backend for this request
    bresp,      \* per connection: what http.Get returned
    respBody,   \* per connection: resp.Body, "none", "open" or "closed"
    resp        \* per connection: what the handler wrote to the client

backVars == << clock, config, pc, req, handler, outbound, calls, bresp, respBody, resp >>

VARIABLES
    \* WeatherAnimation
    isPlaying,          \* playback is running
    currentIndex,       \* index of the current frame, from 0
    speed,              \* speed multiplier, as a fraction
    animationInterval,  \* id of the playback timer, NoTimer for null
    times,              \* the time steps
    loopEnabled,        \* playback wraps at the last frame
    \* the browser
    intervals,          \* the interval timers scheduled by play(), each [id, period]
    timeouts,           \* the pending 5000 ms timeouts, in the order they were set
    loadingTimers,      \* the pending 500 ms hideLoading timeouts
    \* WeatherMap
    weatherLayer,       \* the weather layer of the map, NoLayer for null
    currentParameter,
    currentTime,        \* NoTime for null
    availableTimes,
    opacity,            \* in percent
    timeUpdates,        \* whether updateTime has been called
    \* WeatherApp and WeatherControls
    startup,            \* "fetching", "waiting", "ready", "failed"
    retryCount,
    attempts,           \* calls of fetchAvailableTimes so far
    loading,            \* the loading indicator: hidden or not, with the error text or not
    statusMessage,      \* the status element: its text, whether hidden, whether
                        \* the timeout that hid it was set for an earlier message
    lastCall            \* the operation that ran last

animVars == << isPlaying, currentIndex, speed, animationInterval, times, loopEnabled,
               intervals >>
mapVars == << weatherLayer, currentParameter, currentTime, availableTimes, opacity,
              timeUpdates >>
appVars == << startup, retryCount, attempts, loading, statusMessage, timeouts,
              loadingTimers >>
frontVars == << animVars, mapVars, appVars, lastCall >>

vars == << backVars, frontVars >>

NoRequest == [DefaultQuery EXCEPT !.route = "none", !.REQUEST = ""]
NoCall == << >>
NoBackend == [err |-> "", status |-> 0, ctype |-> "", body |-> << >>]
NoResponse == [status |-> 0, ctype |-> "", body |-> << >>]

\* getEnv: the variable's value unless it is unset or empty
getEnv(value, defaultValue) == IF value # "" THEN value ELSE defaultValue

\* init(): the Config read from the environment
initConfig(env) ==
    [DataDir |-> getEnv(env.DATA_DIR, "/data/weather"),
     Port    |-> getEnv(env.PORT, "8080")]

Environments ==
    { [DATA_DIR |-> "", PORT |-> ""], [DATA_DIR |-> "/srv/gfs", PORT |-> "9090"] }

(***************************************************************************)
(* Inputs                                                                  *)
(***************************************************************************)
RequestSample ==
    { "GetCapabilities", "GetMap", "GetFeatureInfo", "FooBar", "getmap", "" }

PathChars == { "a", "b", ".", "/" }

RECURSIVE SeqsUpTo(_, _)
SeqsUpTo(S, n) ==
    IF n = 0 THEN { << >> }
    ELSE LET shorter == SeqsUpTo(S, n - 1)
         IN  shorter \cup { Append(t, x) : t \in shorter, x \in S }

Paths == SeqsUpTo(PathChars, MaxPathLen)

LayersSample == { << >>, << "t", "2" >> }

IntTextSample ==
    { EmptyInt, IntText("junk", 0), IntText("bigpos", 0), IntText("bigneg", 0),
      IntText("int", 0), IntText("int", -5), IntText("int", 1),
      IntText("int", 512) }

NumA == Dec(1, 2000000, 0)
NumB == Dec(-1, 5000000, 0)
NumC == Dec(1, 12, 3456789)
FieldSample == { << NumTok(NumA) >>, << NumTok(NumB) >>, << JunkTok >> }

\* the fields joined by commas
RECURSIVE Join(_)
Join(fields) ==
    IF Len(fields) = 0 THEN << >>
    ELSE IF Len(fields) = 1 THEN fields[1]
    ELSE fields[1] \o << Comma >> \o Join(Tail(fields))

BBoxSample == { Join(fs) : fs \in SeqsUpTo(FieldSample, MaxFields) }

CRSSample == { "", "EPSG:3857", "epsg:3857", "Epsg:900913", "EPSG:4326" }
SRSSample == { "", "EPSG:3857", "EPSG:4326" }

\* the requests of the concurrent specification: every REQUEST value on the
\* bare route and on a dataset route, and the health check
BaseRequests ==
    { [DefaultQuery EXCEPT !.REQUEST = rq, !.dataset = d] :
        rq \in RequestSample, d \in { << >>, << "a", "/", "b" >> } }
    \cup { [DefaultQuery EXCEPT !.REQUEST = "GetFeatureInfo",
                                !.dataset = << ".", ".", "/", "a" >>,
                                !.LAYERS = << "t", "2" >>,
                                !.WIDTH = IntText("junk", 0),
                                !.BBOX = << JunkTok >>, !.TIME = "never"] }
    \cup { HealthRequest }

\* the GetMap requests of the translation specification
DatasetRequests ==
    { [DefaultQuery EXCEPT !.dataset = d, !.LAYERS = l] :
        d \in Paths, l \in LayersSample }

SizeRequests ==
    { [DefaultQuery EXCEPT !.WIDTH = w, !.HEIGHT = h] :
        w \in IntTextSample, h \in IntTextSample }

BBoxRequests ==
    { [DefaultQuery EXCEPT !.BBOX = b, !.CRS = c, !.SRS = s] :
        b \in BBoxSample, c \in CRSSample, s \in SRSSample }

\* BBOX values of four numbers, one of them with seven decimals
PreciseBBoxRequests ==
    { [DefaultQuery EXCEPT
          !.BBOX = Join(<< << NumTok(x1) >>, << NumTok(y1) >>,
                           << NumTok(x2) >>, << NumTok(y2) >> >>),
          !.CRS = c, !.SRS = s] :
        x1 \in { NumA }, y1 \in { NumA, NumC }, x2 \in { NumB, NumC },
        y2 \in { NumC }, c \in CRSSample, s \in SRSSample }

\* longitudes and latitudes in degrees, and their forward spherical
\* Mercator projection R*lon*pi/180, R*ln(tan(pi/4 + lat*pi/360)) with
\* R = 6378137, as the map client sends it: seven decimals
LonSample == { Dec(-1, 122, 4194155), Dec(1, 13, 4049540), Dec(1, 180, 0) }
LatSample == { Dec(-1, 33, 8688197), Dec(1, 52, 5200066), Dec(1, 85, 511287) }

lon2m(lon) ==
    CASE lon = Dec(-1, 122, 4194155) -> Dec(-1, 13627666, 9966701)
      [] lon = Dec(1, 13, 4049540)   -> Dec(1, 1492232, 6533872)
      [] lon = Dec(1, 180, 0)        -> Dec(1, 20037508, 3427892)

lat2m(lat) ==
    CASE lat = Dec(-1, 33, 8688197) -> Dec(-1, 4011201, 2884641)
      [] lat = Dec(1, 52, 5200066)  -> Dec(1, 6894701, 87227)
      [] lat = Dec(1, 85, 511287)   -> Dec(1, 20037508, 2398060)

\* Web Mercator BBOX values projected from a longitude/latitude box
ProjectedBBoxRequests ==
    { [DefaultQuery EXCEPT
          !.BBOX = Join(<< << NumTok(lon2m(lon1)) >>, << NumTok(lat2m(lat1)) >>,
                           << NumTok(lon2m(lon2)) >>, << NumTok(lat2m(lat2)) >> >>),
          !.CRS = "EPSG:3857"] :
        lon1 \in LonSample, lat1 \in LatSample,
        lon2 \in { Dec(1, 180, 0) }, lat2 \in { Dec(1, 85, 511287) } }

OptionalRequests ==
    { [DefaultQuery EXCEPT !.TIME = t, !.COLORSCALERANGE = r, !.STYLES = st,
                           !.PALETTE = p, !.GAMMA = g, !.gamma = g2] :
        t \in { "", "2025-10-27T12:00:00Z" }, r \in { "", "250,320" },
        st \in { "", "boxfill/rainbow" }, p \in { "", "viridis" },
        g \in { "", "0.8" }, g2 \in { "", "abc" } }

MapRequests ==
    DatasetRequests \cup SizeRequests \cup BBoxRequests
    \cup PreciseBBoxRequests \cup OptionalRequests
    \cup ProjectedBBoxRequests
    \cup { [DefaultQuery EXCEPT !.REQUEST = rq] : rq \in RequestSample }

\* what the backend may answer
BackendReplies ==
    { [err |-> "", status |-> st, ctype |-> ct, body |-> << "bytes", b >>] :
        st \in { 200, 201, 404, 502 }, ct \in { "image/png", "text/plain" },
        b \in { "PNG", "no such file" } }

MapReplies ==
    { [err |-> "", status |-> 200, ctype |-> "image/png", body |-> << "bytes", "PNG" >>],
      [err |-> "", status |-> 500, ctype |-> "text/plain", body |-> << "bytes", "no such file" >>] }

TransportErrors == { "connection refused" }

(***************************************************************************)
(* The browser client: WeatherAnimation, WeatherControls, WeatherMap and   *)
(* WeatherApp.  The operations are the public methods of the classes and    *)
(* the event handlers WeatherControls.init registers; what they write to    *)
(* the DOM apart from the status element and the loading indicator is not   *)
(* part of the state.                                                       *)
(***************************************************************************)
baseInterval == 1000
maxRetries == 3
StatusDelay == 5000     \* the delay of every timeout in timeouts, in ms
InitialOpacity == 90
NoTimer == 0
NoTime == -1

NoLayer == [parameter |-> "", TIME |-> NoTime, opacity |-> 0, visible |-> FALSE]

\* the keys of WEATHER_LAYERS the model uses
Parameters == { "temp_2m", "mslp" }

\* the speed multipliers of the speed buttons: 0.5, 1, 2, 4
Fraction(n, d) == [num |-> n, den |-> d]
Speeds == { Fraction(1, 2), Fraction(1, 1), Fraction(2, 1), Fraction(4, 1) }

\* a time list of n steps, each the forecast hour
TimeList(n) == [k \in 1..n |-> 3 * (k - 1)]
TimeLists == { TimeList(n) : n \in 0..MaxTimes }

\* what fetchAvailableTimes resolves to: [] after an error or without a time
\* Dimension, the list of the Dimension otherwise
FetchResults == { TimeList(0), TimeList(MaxTimes - 1) }

OpacitySample == { 50 }

KeyCodes == { "Space", "ArrowLeft", "ArrowRight", "Escape", "KeyA" }
TagNames == { "BODY", "INPUT" }

NoStatus == [text |-> "", hidden |-> TRUE, cutShort |-> FALSE]

\* the client after new WeatherApp(): map, animation and controls built, the
\* first fetchAvailableTimes in flight
FrontInit ==
    /\ isPlaying = FALSE
    /\ currentIndex = 0
    /\ speed = Fraction(1, 1)
    /\ animationInterval = NoTimer
    /\ times = << >>
    /\ loopEnabled = TRUE
    /\ intervals = { }
    /\ timeouts = << >>
    /\ loadingTimers = 0
    /\ weatherLayer = NoLayer
    /\ currentParameter = "temp_2m"
    /\ currentTime = NoTime
    /\ availableTimes = << >>
    /\ opacity = InitialOpacity
    /\ timeUpdates = FALSE
    /\ startup = "fetching"
    /\ retryCount = 0
    /\ attempts = 1
    /\ loading = [hidden |-> FALSE, error |-> FALSE]
    /\ statusMessage = NoStatus
    /\ lastCall = "new"

(***************************************************************************)
(* Actions                                                                 *)
(***************************************************************************)
Init ==
    /\ FrontInit
    /\ clock = 0
    /\ config \in { initConfig(e) : e \in Environments }
    /\ pc = [c \in Conn |-> "idle"]
    /\ req = [c \in Conn |-> NoRequest]
    /\ handler = [c \in Conn |-> "none"]
    /\ outbound = [c \in Conn |-> NoCall]
    /\ calls = [c \in Conn |-> 0]
    /\ bresp = [c \in Conn |-> NoBackend]
    /\ respBody = [c \in Conn |-> "none"]
    /\ resp = [c \in Conn |-> NoResponse]

\* the client's page, the gateway idle in its default configuration
InitClient == Init /\ config = initConfig([DATA_DIR |-> "", PORT |-> ""])

\* the router hands a request to its handler
Arrive(c, Requests) ==
    /\ pc[c] = "idle"
    /\ \E q \in Requests : req' = [req EXCEPT ![c] = q]
    /\ pc' = [pc EXCEPT ![c] = "received"]
    /\ UNCHANGED << clock, config, handler, outbound, calls, bresp, resp, respBody, frontVars >>

\* a time Dimension that starts at the untruncated clock
capabilityTimesFromNow(now) ==
    [k \in 1..((48 \div 3) + 1) |-> now + (k - 1) * 3 * 2]

\* the time Dimension: now, truncated to the hour, to +48h in 3h steps
capabilityTimes(now) ==
    LET start == now - (now % 2)
        n == (48 \div 3) + 1
    IN  [k \in 1..n |-> start + (k - 1) * 3 * 2]

handleGetCapabilities(c) ==
    /\ switchCase(req[c].REQUEST) = "GetCapabilities"
    /\ handler' = [handler EXCEPT ![c] = "GetCapabilities"]
    /\ resp' = [resp EXCEPT ![c] =
                  [status |-> StatusOK, ctype |-> "text/xml",
                   body |-> << "WMS_Capabilities", capabilityTimes(clock) >>]]
    /\ pc' = [pc EXCEPT ![c] = "done"]
    /\ UNCHANGED << clock, config, req, outbound, calls, bresp, respBody, frontVars >>

\* a handleGetMap that keeps the last dataset directory in the shared Config
handleGetMapShared(c) ==
    /\ switchCase(req[c].REQUEST) = "GetMap"
    /\ handler' = [handler EXCEPT ![c] = "GetMap"]
    /\ outbound' = [outbound EXCEPT ![c] = renderValues(req[c].dataset, req[c])]
    /\ calls' = [calls EXCEPT ![c] = @ + 1]
    /\ pc' = [pc EXCEPT ![c] = "awaitBackend"]
    /\ config' = [config EXCEPT !.DataDir = "/data/last"]
    /\ UNCHANGED << clock, req, bresp, resp, respBody, frontVars >>

\* handleGetMap up to http.Get, where the handler blocks
handleGetMap(c) ==
    /\ switchCase(req[c].REQUEST) = "GetMap"
    /\ handler' = [handler EXCEPT ![c] = "GetMap"]
    /\ outbound' = [outbound EXCEPT ![c] = renderValues(req[c].dataset, req[c])]
    /\ calls' = [calls EXCEPT ![c] = @ + 1]
    /\ pc' = [pc EXCEPT ![c] = "awaitBackend"]
    /\ UNCHANGED << clock, config, req, bresp, resp, respBody, frontVars >>

\* a stub that echoes the base name of the dataset path
featureInfoBaseName(dataset) ==
    [dataset |-> Base(dataset), value |-> "null",
     info |-> "FeatureInfo not implemented yet"]

\* the map handed to the JSON encoder
featureInfo(dataset) ==
    [dataset |-> dataset, value |-> "null",
     info |-> "FeatureInfo not implemented yet"]

handleGetFeatureInfo(c) ==
    /\ switchCase(req[c].REQUEST) = "GetFeatureInfo"
    /\ handler' = [handler EXCEPT ![c] = "GetFeatureInfo"]
    /\ resp' = [resp EXCEPT ![c] =
                  [status |-> StatusOK, ctype |-> "application/json",
                   body |-> << "json", featureInfo(req[c].dataset) >>]]
    /\ pc' = [pc EXCEPT ![c] = "done"]
    /\ UNCHANGED << clock, config, req, outbound, calls, bresp, respBody, frontVars >>

\* the default case of the switch
invalidRequest(c) ==
    /\ switchCase(req[c].REQUEST) = "default"
    /\ handler' = [handler EXCEPT ![c] = "default"]
    /\ resp' = [resp EXCEPT ![c] =
                  [status |-> StatusBadRequest, ctype |-> "text/plain; charset=utf-8",
                   body |-> << "text", "Invalid REQUEST parameter. Use GetCapabilities, GetMap, or GetFeatureInfo" >>]]
    /\ pc' = [pc EXCEPT ![c] = "done"]
    /\ UNCHANGED << clock, config, req, outbound, calls, bresp, respBody, frontVars >>

\* a dispatch that waits while another connection is blocked on the backend
wmsHandlerSerial(c) ==
    /\ pc[c] = "received"
    /\ req[c].route = "wms"
    /\ \A d \in Conn : pc[d] # "awaitBackend"
    /\ \/ handleGetCapabilities(c)
       \/ handleGetMap(c)
       \/ handleGetFeatureInfo(c)
       \/ invalidRequest(c)

wmsHandler(c) ==
    /\ pc[c] = "received"
    /\ req[c].route = "wms"
    /\ \/ handleGetCapabilities(c)
       \/ handleGetMap(c)
       \/ handleGetFeatureInfo(c)
       \/ invalidRequest(c)

healthHandler(c) ==
    /\ pc[c] = "received"
    /\ req[c].route = "health"
    /\ handler' = [handler EXCEPT ![c] = "health"]
    /\ resp' = [resp EXCEPT ![c] =
                  [status |-> StatusOK, ctype |-> "application/json",
                   body |-> << "json", [status |-> "healthy",
                                        service |-> "weather-wms-server",
                                        time |-> clock, config |-> config] >>]]
    /\ pc' = [pc EXCEPT ![c] = "done"]
    /\ UNCHANGED << clock, config, req, outbound, calls, bresp, respBody, frontVars >>

\* a relay that answers a transport error as a backend response
relayErrorAsOK(b) ==
    IF b.status # StatusOK /\ b.err = ""
    THEN [status |-> StatusBadGateway, ctype |-> "", body |-> b.body]
    ELSE [status |-> StatusOK, ctype |-> "image/png", body |-> b.body]

\* a relay that copies the backend's status through
relayOwnStatus(b) ==
    IF b.err # ""
    THEN [status |-> StatusBadGateway, ctype |-> "text/plain; charset=utf-8",
          body |-> << "text", "render backend error: ", b.err >>]
    ELSE IF b.status # StatusOK
    THEN [status |-> b.status, ctype |-> "", body |-> b.body]
    ELSE [status |-> StatusOK, ctype |-> "image/png", body |-> b.body]

\* a relay that keeps the content type the backend declared
relayBackendType(b) ==
    IF b.err # ""
    THEN [status |-> StatusBadGateway, ctype |-> "text/plain; charset=utf-8",
          body |-> << "text", "render backend error: ", b.err >>]
    ELSE IF b.status # StatusOK
    THEN [status |-> StatusBadGateway, ctype |-> "", body |-> b.body]
    ELSE [status |-> StatusOK, ctype |-> b.ctype, body |-> b.body]

\* what handleGetMap writes once http.Get has returned
relay(b) ==
    IF b.err # ""
    THEN [status |-> StatusBadGateway, ctype |-> "text/plain; charset=utf-8",
          body |-> << "text", "render backend error: ", b.err >>]
    ELSE IF b.status # StatusOK
    THEN [status |-> StatusBadGateway, ctype |-> "", body |-> b.body]
    ELSE [status |-> StatusOK, ctype |-> "image/png", body |-> b.body]

\* a handler that closes resp.Body on its success path only
bodyOnReturnSuccessOnly(b) == IF b.status # StatusOK THEN "open" ELSE "closed"

\* resp.Body when handleGetMap returns after a response: http.Get handed it
\* over open, and the deferred resp.Body.Close() runs on both return paths
bodyOnReturn(b) == "closed"

\* a handler that sends the GET again after a transport error
getMapTransportErrorRetry(c) ==
    /\ pc[c] = "awaitBackend"
    /\ calls' = [calls EXCEPT ![c] = @ + 1]
    /\ UNCHANGED << clock, config, pc, req, handler, outbound, bresp, resp, respBody, frontVars >>

\* http.Get returns an error: the backend could not be reached
getMapTransportError(c) ==
    /\ pc[c] = "awaitBackend"
    /\ \E e \in TransportErrors :
         LET b == [NoBackend EXCEPT !.err = e]
         IN  /\ bresp' = [bresp EXCEPT ![c] = b]
             /\ resp' = [resp EXCEPT ![c] = relay(b)]
    /\ pc' = [pc EXCEPT ![c] = "done"]
    /\ UNCHANGED << clock, config, req, handler, outbound, calls, respBody, frontVars >>

\* http.Get returns the backend's response
getMapResponse(c, Replies) ==
    /\ pc[c] = "awaitBackend"
    /\ \E b \in Replies :
         /\ bresp' = [bresp EXCEPT ![c] = b]
         /\ resp' = [resp EXCEPT ![c] = relay(b)]
         /\ respBody' = [respBody EXCEPT ![c] = bodyOnReturn(b)]
    /\ pc' = [pc EXCEPT ![c] = "done"]
    /\ UNCHANGED << clock, config, req, handler, outbound, calls, frontVars >>

\* the response is sent; the connection takes the next request
Complete(c) ==
    /\ pc[c] = "done"
    /\ pc' = [pc EXCEPT ![c] = "idle"]
    /\ req' = [req EXCEPT ![c] = NoRequest]
    /\ handler' = [handler EXCEPT ![c] = "none"]
    /\ outbound' = [outbound EXCEPT ![c] = NoCall]
    /\ calls' = [calls EXCEPT ![c] = 0]
    /\ bresp' = [bresp EXCEPT ![c] = NoBackend]
    /\ respBody' = [respBody EXCEPT ![c] = "none"]
    /\ resp' = [resp EXCEPT ![c] = NoResponse]
    /\ UNCHANGED << clock, config, frontVars >>

Tick ==
    /\ clock < MaxClock
    /\ clock' = clock + 1
    /\ UNCHANGED << config, pc, req, handler, outbound, calls, bresp, resp, respBody, frontVars >>

Next ==
    \/ \E c \in Conn :
         \/ Arrive(c, BaseRequests)
         \/ wmsHandler(c)
         \/ healthHandler(c)
         \/ getMapTransportError(c)
         \/ getMapResponse(c, BackendReplies)
         \/ Complete(c)
    \/ Tick

Spec == Init /\ [][Next]_vars

\* one connection, the GetMap translation over its whole input domain
NextMap ==
    \/ Arrive(1, MapRequests)
    \/ wmsHandler(1)
    \/ getMapTransportError(1)
    \/ getMapResponse(1, MapReplies)
    \/ Complete(1)

SpecMap == Init /\ [][NextMap]_vars

(***************************************************************************)
(* The client's objects as records, and their methods as operators from    *)
(* the object before the call to the object after it.                      *)
(***************************************************************************)
\* the WeatherAnimation object with the interval timers of the page
Animation ==
    [isPlaying |-> isPlaying, currentIndex |-> currentIndex, speed |-> speed,
     animationInterval |-> animationInterval, times |-> times,
     loopEnabled |-> loopEnabled, intervals |-> intervals]

\* the WeatherMap object
TheMap ==
    [weatherLayer |-> weatherLayer, currentParameter |-> currentParameter,
     currentTime |-> currentTime, availableTimes |-> availableTimes,
     opacity |-> opacity, timeUpdates |-> timeUpdates]

\* the WeatherApp and WeatherControls fields, with the pending timeouts
TheApp ==
    [startup |-> startup, retryCount |-> retryCount, attempts |-> attempts,
     loading |-> loading, statusMessage |-> statusMessage, timeouts |-> timeouts,
     loadingTimers |-> loadingTimers]

\* setInterval's return value: an id no scheduled timer has
FreshId(scheduled) ==
    CHOOSE i \in 1..(Cardinality(scheduled) + 1) :
        /\ \A t \in scheduled : t.id # i
        /\ \A j \in 1..(i - 1) : \E t \in scheduled : t.id = j

\* clearInterval(id)
clearInterval(scheduled, id) == { t \in scheduled : t.id # id }

\* WeatherMap.createWeatherLayer: a new layer replaces the one there is
createWeatherLayer(m) ==
    [m EXCEPT !.weatherLayer =
        [parameter |-> m.currentParameter, TIME |-> m.currentTime,
         opacity |-> m.opacity, visible |-> TRUE]]

\* WeatherMap.updateParameter
updateParameter(m, parameter) ==
    IF m.currentParameter = parameter THEN m
    ELSE createWeatherLayer([m EXCEPT !.currentParameter = parameter])

\* WeatherMap.updateTime
updateTime(m, time) ==
    LET m1 == [m EXCEPT !.currentTime = time, !.timeUpdates = TRUE]
    IN  IF m1.weatherLayer = NoLayer
        THEN createWeatherLayer(m1)
        ELSE [m1 EXCEPT !.weatherLayer.TIME = time]

\* WeatherMap.setOpacity
setOpacity(m, value) ==
    IF m.weatherLayer = NoLayer
    THEN [m EXCEPT !.opacity = value]
    ELSE [m EXCEPT !.opacity = value, !.weatherLayer.opacity = value]

\* WeatherMap.setLayerVisible
setLayerVisible(m, visible) ==
    IF m.weatherLayer = NoLayer THEN m
    ELSE [m EXCEPT !.weatherLayer.visible = visible]

\* a setTimes that keeps the current frame index
setTimesKeepIndex(a, ts) == [a EXCEPT !.times = ts]

\* WeatherAnimation.setTimes
setTimes(a, ts) == [a EXCEPT !.times = ts, !.currentIndex = 0]

\* a pause that leaves the timer running
pauseKeepTimer(a) == [a EXCEPT !.isPlaying = FALSE, !.animationInterval = NoTimer]

\* WeatherAnimation.pause
pause(a) ==
    IF a.animationInterval # NoTimer
    THEN [a EXCEPT !.isPlaying = FALSE,
                   !.intervals = clearInterval(a.intervals, a.animationInterval),
                   !.animationInterval = NoTimer]
    ELSE [a EXCEPT !.isPlaying = FALSE]

\* baseInterval / speed
interval(a) == (baseInterval * a.speed.den) \div a.speed.num

\* WeatherAnimation.play
play(a) ==
    IF a.isPlaying \/ Len(a.times) = 0 THEN a
    ELSE LET id == FreshId(a.intervals)
         IN  [a EXCEPT !.isPlaying = TRUE, !.animationInterval = id,
                       !.intervals = @ \cup { [id |-> id, period |-> interval(a)] }]

\* WeatherAnimation.updateMap: the map after the call
updateMap(a, m) ==
    IF Len(a.times) = 0 \/ a.currentIndex >= Len(a.times) THEN m
    ELSE updateTime(m, a.times[a.currentIndex + 1])

\* the animation and the map a method leaves
Both(a, m) == [a |-> a, m |-> m]

\* a stop that keeps the current frame
stopKeepFrame(a, m) == Both(pause(a), updateMap(pause(a), m))

\* WeatherAnimation.stop
stop(a, m) ==
    LET a1 == [pause(a) EXCEPT !.currentIndex = 0]
    IN  Both(a1, updateMap(a1, m))

\* a nextFrame that stays on the last frame
nextFrameNoWrap(a, m) ==
    IF Len(a.times) = 0 \/ a.currentIndex + 1 >= Len(a.times) THEN Both(a, m)
    ELSE LET a1 == [a EXCEPT !.currentIndex = @ + 1]
         IN  Both(a1, updateMap(a1, m))

\* WeatherAnimation.nextFrame
nextFrame(a, m) ==
    IF Len(a.times) = 0 THEN Both(a, m)
    ELSE LET a1 == [a EXCEPT !.currentIndex = @ + 1]
         IN  IF a1.currentIndex >= Len(a1.times)
             THEN IF a1.loopEnabled
                  THEN LET a2 == [a1 EXCEPT !.currentIndex = 0]
                       IN  Both(a2, updateMap(a2, m))
                  ELSE Both([pause(a1) EXCEPT !.currentIndex = Len(a1.times) - 1], m)
             ELSE Both(a1, updateMap(a1, m))

\* WeatherAnimation.previousFrame
previousFrame(a, m) ==
    IF Len(a.times) = 0 THEN Both(a, m)
    ELSE LET a1 == [a EXCEPT !.currentIndex = @ - 1]
             a2 == IF a1.currentIndex < 0
                   THEN [a1 EXCEPT !.currentIndex = Len(a1.times) - 1]
                   ELSE a1
         IN  Both(a2, updateMap(a2, m))

\* a setSpeed that stops playback
setSpeedAndPause(a, s) == [pause(a) EXCEPT !.speed = s]

\* WeatherAnimation.setSpeed
setSpeed(a, s) ==
    LET wasPlaying == a.isPlaying
        a1 == IF wasPlaying THEN pause(a) ELSE a
        a2 == [a1 EXCEPT !.speed = s]
    IN  IF wasPlaying THEN play(a2) ELSE a2

\* WeatherAnimation.goToFrame
goToFrame(a, m, index) ==
    IF index < 0 \/ index >= Len(a.times) THEN Both(a, m)
    ELSE LET a1 == [a EXCEPT !.currentIndex = index]
         IN  Both(a1, updateMap(a1, m))

\* WeatherAnimation.setLoopEnabled
setLoopEnabled(a, enabled) == [a EXCEPT !.loopEnabled = enabled]

\* a togglePlayPause that only ever starts playback
togglePlayOnly(a) == play(a)

\* WeatherControls.togglePlayPause
togglePlayPause(a) == IF a.isPlaying THEN pause(a) ELSE play(a)

\* WeatherControls.handleKeyboard for the event e = [code, tagName]
handleKeyboard(e, a, m) ==
    CASE e.code = "Space" /\ e.tagName # "INPUT" -> Both(togglePlayPause(a), m)
      [] e.code = "ArrowLeft"  -> previousFrame(a, m)
      [] e.code = "ArrowRight" -> nextFrame(a, m)
      [] e.code = "Escape"     -> stop(a, m)
      [] OTHER                 -> Both(a, m)

\* WeatherControls.showStatus: the message shown, its timeout set; the
\* timeouts still pending are from now on those of earlier messages
showStatus(u, message) ==
    [u EXCEPT !.statusMessage = [text |-> message, hidden |-> FALSE, cutShort |-> FALSE],
              !.timeouts =
                  Append([k \in DOMAIN @ |->
                             IF @[k].kind = "hideStatus"
                             THEN [@[k] EXCEPT !.forEarlier = TRUE] ELSE @[k]],
                         [kind |-> "hideStatus", forEarlier |-> FALSE])]

\* WeatherControls.hideStatus
hideStatus(u) == [u EXCEPT !.statusMessage.hidden = TRUE]

\* the assignment of the objects to the state
SetAnimation(a) ==
    /\ isPlaying' = a.isPlaying
    /\ currentIndex' = a.currentIndex
    /\ speed' = a.speed
    /\ animationInterval' = a.animationInterval
    /\ times' = a.times
    /\ loopEnabled' = a.loopEnabled
    /\ intervals' = a.intervals

SetMap(m) ==
    /\ weatherLayer' = m.weatherLayer
    /\ currentParameter' = m.currentParameter
    /\ currentTime' = m.currentTime
    /\ availableTimes' = m.availableTimes
    /\ opacity' = m.opacity
    /\ timeUpdates' = m.timeUpdates

SetApp(u) ==
    /\ startup' = u.startup
    /\ retryCount' = u.retryCount
    /\ attempts' = u.attempts
    /\ loading' = u.loading
    /\ statusMessage' = u.statusMessage
    /\ timeouts' = u.timeouts
    /\ loadingTimers' = u.loadingTimers

\* a call that leaves the animation and the map as r
Call(name, r) ==
    /\ SetAnimation(r.a)
    /\ SetMap(r.m)
    /\ lastCall' = name
    /\ UNCHANGED << appVars, backVars >>

(***************************************************************************)
(* The calls of the animation's methods and the events of the controls.    *)
(***************************************************************************)
CallSetTimes ==
    \E ts \in TimeLists : Call("setTimes", Both(setTimes(Animation, ts), TheMap))

CallPlay == Call("play", Both(play(Animation), TheMap))

CallPause == Call("pause", Both(pause(Animation), TheMap))

\* the Stop button
StopClick == Call("stop", stop(Animation, TheMap))

CallNextFrame == Call("nextFrame", nextFrame(Animation, TheMap))

CallPreviousFrame == Call("previousFrame", previousFrame(Animation, TheMap))

\* the timeline slider, and goToFrame with any integer
SliderInput ==
    \E index \in -1..MaxTimes :
        Call("goToFrame", goToFrame(Animation, TheMap, index))

\* a speed button
SpeedClick ==
    \E s \in Speeds : Call("setSpeed", Both(setSpeed(Animation, s), TheMap))

CallSetLoopEnabled ==
    \E enabled \in BOOLEAN :
        Call("setLoopEnabled", Both(setLoopEnabled(Animation, enabled), TheMap))

\* the Play/Pause button
PlayPauseClick == Call("togglePlayPause", Both(togglePlayPause(Animation), TheMap))

\* the name a key press is recorded under
KeyName(e) ==
    IF e.code = "Space" /\ e.tagName = "INPUT" THEN "SpaceOnInput" ELSE e.code

\* a keydown event of the document
KeyDown ==
    \E code \in KeyCodes, tagName \in TagNames :
        LET e == [code |-> code, tagName |-> tagName]
        IN  Call(KeyName(e), handleKeyboard(e, Animation, TheMap))

\* the callback of a scheduled interval timer
IntervalTick ==
    /\ intervals # { }
    /\ Call("tick", nextFrame(Animation, TheMap))

NextAnimation ==
    \/ CallSetTimes
    \/ CallPlay
    \/ CallPause
    \/ StopClick
    \/ CallNextFrame
    \/ CallPreviousFrame
    \/ SliderInput
    \/ SpeedClick
    \/ CallSetLoopEnabled
    \/ PlayPauseClick
    \/ KeyDown
    \/ IntervalTick

\* the animation driven through its methods, the controls and its timer
SpecAnimation == InitClient /\ [][NextAnimation]_vars

(***************************************************************************)
(* The start-up of WeatherApp, the status element, the map's controls.     *)
(***************************************************************************)
\* a step that leaves the animation and the map as r and the app as u
AppCall(name, r, u) ==
    /\ SetAnimation(r.a)
    /\ SetMap(r.m)
    /\ SetApp(u)
    /\ lastCall' = name
    /\ UNCHANGED backVars

\* loadWeatherData with as many attempts as it takes
loadWeatherDataUnbounded(ts, a, m, u) ==
    IF Len(ts) = 0
    THEN [r |-> Both(a, m),
          u |-> [showStatus(u, "Loading data... Retry") EXCEPT
                    !.startup = "waiting",
                    !.timeouts = Append(@, [kind |-> "retry", forEarlier |-> FALSE])]]
    ELSE LET r == goToFrame(setTimes(a, ts), [m EXCEPT !.availableTimes = ts], 0)
         IN  [r |-> r,
              u |-> [showStatus(u, "Loaded forecast time steps") EXCEPT
                        !.startup = "ready", !.loading.hidden = TRUE]]

\* loadWeatherData from the point where fetchAvailableTimes resolves to ts,
\* with init's catch and handleInitError
loadWeatherData(ts, a, m, u) ==
    IF Len(ts) = 0
    THEN IF u.retryCount < maxRetries
         THEN [r |-> Both(a, m),
               u |-> [showStatus([u EXCEPT !.retryCount = @ + 1], "Loading data... Retry")
                         EXCEPT !.startup = "waiting",
                                !.timeouts = Append(@, [kind |-> "retry",
                                                        forEarlier |-> FALSE])]]
         ELSE [r |-> Both(a, m),
               u |-> [showStatus(u, "Failed to load weather data") EXCEPT
                         !.startup = "failed", !.loading.error = TRUE]]
    ELSE LET r == goToFrame(setTimes(a, ts), [m EXCEPT !.availableTimes = ts], 0)
         IN  [r |-> r,
              u |-> [showStatus(u, "Loaded forecast time steps") EXCEPT
                        !.startup = "ready", !.loading.hidden = TRUE]]

\* fetchAvailableTimes resolves
FetchSettles ==
    /\ startup = "fetching"
    /\ \E ts \in FetchResults :
         LET after == loadWeatherData(ts, Animation, TheMap, TheApp)
         IN  AppCall("loadWeatherData", after.r, after.u)

\* the oldest pending 5000 ms timeout runs: it hides the status element, or
\* resumes loadWeatherData, which calls fetchAvailableTimes again
TimeoutFires ==
    /\ Len(timeouts) > 0
    /\ LET t == Head(timeouts)
           u == [TheApp EXCEPT !.timeouts = Tail(@)]
       IN  IF t.kind = "hideStatus"
           THEN AppCall("timeout", Both(Animation, TheMap),
                        [u EXCEPT !.statusMessage =
                            [@ EXCEPT !.hidden = TRUE,
                                      !.cutShort = ~@ /\ t.forEarlier]])
           ELSE AppCall("retry", Both(Animation, TheMap),
                        [u EXCEPT !.startup = "fetching", !.attempts = @ + 1])

\* a pending hideLoading timeout runs
LoadingTimeoutFires ==
    /\ loadingTimers > 0
    /\ AppCall("hideLoading", Both(Animation, TheMap),
               [TheApp EXCEPT !.loadingTimers = @ - 1, !.loading.hidden = TRUE])

\* showStatus called by any code of the page
CallShowStatus ==
    /\ Len(timeouts) < MaxPending
    /\ AppCall("showStatus", Both(Animation, TheMap), showStatus(TheApp, "message"))

CallHideStatus ==
    AppCall("hideStatus", Both(Animation, TheMap), hideStatus(TheApp))

\* the parameter select: WeatherControls.handleParameterChange
ParameterChange ==
    /\ loadingTimers < MaxSpinners
    /\ \E parameter \in Parameters :
         AppCall("handleParameterChange",
                 Both(Animation, updateParameter(TheMap, parameter)),
                 [TheApp EXCEPT !.loading.hidden = FALSE, !.loadingTimers = @ + 1])

\* the opacity slider
OpacityInput ==
    \E value \in OpacitySample :
        Call("setOpacity", Both(Animation, setOpacity(TheMap, value)))

\* the layer checkbox
LayerToggle ==
    \E checked \in BOOLEAN :
        Call("setLayerVisible", Both(Animation, setLayerVisible(TheMap, checked)))

NextApp ==
    \/ FetchSettles
    \/ TimeoutFires
    \/ LoadingTimeoutFires
    \/ ParameterChange
    \/ OpacityInput
    \/ LayerToggle
    \/ KeyDown
    \/ IntervalTick

\* the page from its load on: the start-up, the controls of the map, the
\* keyboard and the playback timer
SpecApp == InitClient /\ [][NextApp]_vars

NextStatus ==
    \/ FetchSettles
    \/ TimeoutFires
    \/ CallShowStatus
    \/ CallHideStatus

\* the start-up and the status element, shown and hidden by any caller
SpecStatus == InitClient /\ [][NextStatus]_vars

\* the same, where a fetch resolves and a timeout that is due runs
FairSpecApp == SpecApp /\ WF_vars(FetchSettles) /\ WF_vars(TimeoutFires)

(***************************************************************************)
(* Properties                                                              *)
(***************************************************************************)
\* a connection whose request went through handleGetMap's translation
Translated(c) == pc[c] \in { "awaitBackend", "done" } /\ handler[c] = "GetMap"

Forwards(c, k) == k \in DOMAIN outbound[c]

ValidRequests == { "GetCapabilities", "GetMap", "GetFeatureInfo" }

\* C1: a WMS request whose REQUEST is not exactly GetCapabilities, GetMap or
\* GetFeatureInfo is answered 400 without any call to the render backend;
\* each of the three exact values reaches exactly the handler of that name.
C1_Dispatch ==
    \A c \in Conn :
        (pc[c] \in { "awaitBackend", "done" } /\ req[c].route = "wms") =>
            IF req[c].REQUEST \in ValidRequests
            THEN handler[c] = req[c].REQUEST
            ELSE /\ pc[c] = "done"
                 /\ handler[c] = "default"
                 /\ resp[c].status = 400
                 /\ calls[c] = 0
                 /\ outbound[c] = NoCall

C1_Witness ==
    \E c \in Conn :
        /\ pc[c] = "done"
        /\ req[c].REQUEST = "getmap"
        /\ resp[c].status = 400
        /\ calls[c] = 0

\* C2: the file parameter of every render call is a bare base name: it
\* holds no '/' and is not the traversal segment '..'.
C2_FileIsBaseName ==
    \A c \in Conn :
        (Translated(c) /\ Forwards(c, "file")) =>
            /\ \A i \in 1..Len(outbound[c].file) : outbound[c].file[i] # "/"
            /\ outbound[c].file # << ".", "." >>

\* the fields of the request's BBOX and the CRS the request declares
BBoxFields(c) == Split(req[c].BBOX, Comma)
DeclaredCRS(c) == IF req[c].CRS # "" THEN req[c].CRS ELSE req[c].SRS
DeclaresMercator(c) == Upper(DeclaredCRS(c)) \in { "EPSG:3857", "EPSG:900913" }

\* C3: when a GetMap request declares Web Mercator (EPSG:3857 or
\* EPSG:900913, in any case) and a bbox is forwarded, both X values are
\* forwarded as m2lon of the client's and both Y values as m2lat of the
\* client's, so every forwarded number is a longitude or latitude in degrees.
C3_MercatorConverted ==
    \A c \in Conn :
        (Translated(c) /\ Forwards(c, "bbox") /\ DeclaresMercator(c)) =>
            /\ outbound[c].bbox =
                 << FormatF(m2lon(ParseFloat(BBoxFields(c)[1]))),
                    FormatF(m2lat(ParseFloat(BBoxFields(c)[2]))),
                    FormatF(m2lon(ParseFloat(BBoxFields(c)[3]))),
                    FormatF(m2lat(ParseFloat(BBoxFields(c)[4]))) >>
            /\ \A i \in { 1, 3 } : outbound[c].bbox[i].w <= 180
            /\ \A i \in { 2, 4 } : outbound[c].bbox[i].w <= 90

C3_Witness ==
    \E c \in Conn :
        /\ Translated(c)
        /\ req[c].CRS = "Epsg:900913"
        /\ req[c].BBOX = << NumTok(NumB), Comma, NumTok(NumB), Comma,
                            NumTok(NumA), Comma, NumTok(NumA) >>
        /\ Forwards(c, "bbox")
        /\ outbound[c].bbox[4] = [s |-> 1, w |-> 17, u |-> 678914]

\* a BBOX that is not exactly four comma-separated numbers
IsNumber(field) == Len(field) = 1 /\ field[1].kind = "num"
MalformedBBox(c) ==
    \/ req[c].BBOX = << >>
    \/ Len(BBoxFields(c)) # 4
    \/ \E i \in 1..Len(BBoxFields(c)) : ~IsNumber(BBoxFields(c)[i])

\* C4: a GetMap request whose BBOX is absent or malformed (not four fields,
\* or four fields of which some are not numbers) forwards no bbox.
C4_MalformedBBoxOmitted ==
    \A c \in Conn :
        (Translated(c) /\ MalformedBBox(c)) => ~Forwards(c, "bbox")

\* a dataset path of exactly one segment
OneSegment(d) == d # << >> /\ \A i \in 1..Len(d) : d[i] # "/"

\* C5 as stated: a dataset path of one segment forwards that segment as the
\* file and no layer, whatever the other parameters.
C5_OneSegmentNoLayer ==
    \A c \in Conn :
        (Translated(c) /\ OneSegment(req[c].dataset)) =>
            /\ Forwards(c, "file") /\ outbound[c].file = req[c].dataset
            /\ ~Forwards(c, "layer")

\* C5 as amended: a dataset path of one segment forwards that segment as
\* the file; the path gives no layer, so the forwarded layer is LAYERS when
\* LAYERS is non-empty and is omitted otherwise.
C5_OneSegment ==
    \A c \in Conn :
        (Translated(c) /\ OneSegment(req[c].dataset)) =>
            /\ Forwards(c, "file") /\ outbound[c].file = req[c].dataset
            /\ IF req[c].LAYERS # << >>
               THEN Forwards(c, "layer") /\ outbound[c].layer = req[c].LAYERS
               ELSE ~Forwards(c, "layer")

C5_Witness ==
    \E c \in Conn :
        /\ Translated(c)
        /\ req[c].dataset = << "a", ".", "b" >>
        /\ req[c].LAYERS = << "t", "2" >>
        /\ outbound[c].file = << "a", ".", "b" >>
        /\ outbound[c].layer = << "t", "2" >>

\* the '/'-separated segments of a dataset path, counted from the end
Segments(d) == Split(d, "/")
FromEnd(d, k) == Segments(d)[Len(Segments(d)) - k]
TwoOrMore(d) == d # << >> /\ Len(Segments(d)) >= 2

\* a parameter forwarded with value x, an empty x being omitted
ForwardedAs(c, k, x) ==
    IF x = << >> THEN ~Forwards(c, k) ELSE Forwards(c, k) /\ outbound[c][k] = x

\* C6 as stated: with two or more segments the forwarded layer is the
\* second-to-last segment and the forwarded file the last one, whatever the
\* leading segments and LAYERS are.
C6_LayerIsSecondToLast ==
    \A c \in Conn :
        (Translated(c) /\ TwoOrMore(req[c].dataset)) =>
            /\ ForwardedAs(c, "layer", FromEnd(req[c].dataset, 1))
            /\ ForwardedAs(c, "file", FromEnd(req[c].dataset, 0))

\* C6 as amended: with two or more segments the forwarded file is the last
\* segment, and the forwarded layer is the second-to-last segment when that
\* segment is non-empty, whatever the leading segments and LAYERS are; when
\* the second-to-last segment is empty the layer is LAYERS.
C6_TwoSegments ==
    \A c \in Conn :
        (Translated(c) /\ TwoOrMore(req[c].dataset)) =>
            /\ ForwardedAs(c, "file", FromEnd(req[c].dataset, 0))
            /\ IF FromEnd(req[c].dataset, 1) # << >>
               THEN ForwardedAs(c, "layer", FromEnd(req[c].dataset, 1))
               ELSE ForwardedAs(c, "layer", req[c].LAYERS)

C6_Witness ==
    \E c \in Conn :
        /\ Translated(c)
        /\ req[c].dataset = << "a", "/", "b", "/", "." >>
        /\ req[c].LAYERS = << "t", "2" >>
        /\ outbound[c].layer = << "b" >>
        /\ outbound[c].file = << "." >>

\* C7: a GetMap request with an empty dataset path forwards no file, and
\* forwards LAYERS as the layer when LAYERS is non-empty, no layer otherwise.
C7_EmptyPath ==
    \A c \in Conn :
        (Translated(c) /\ req[c].dataset = << >>) =>
            /\ ~Forwards(c, "file")
            /\ IF req[c].LAYERS # << >>
               THEN Forwards(c, "layer") /\ outbound[c].layer = req[c].LAYERS
               ELSE ~Forwards(c, "layer")

C7_Witness ==
    \E c \in Conn :
        /\ Translated(c)
        /\ req[c].dataset = << >>
        /\ req[c].LAYERS = << "t", "2" >>
        /\ outbound[c].layer = << "t", "2" >>
        /\ ~Forwards(c, "file")

\* the size the claim gives for a WIDTH or HEIGHT text: the integer itself
\* when the text parses as a positive integer, 256 otherwise
ClaimedSize(t) ==
    IF t.kind = "int" /\ t.val > 0 THEN IntText("int", t.val)
    ELSE IntText("int", 256)

\* C8: width and height are decided independently; a text that parses as a
\* positive integer is forwarded unchanged, any other text (missing,
\* unparseable, zero, negative) is replaced by 256.
C8_Dimensions ==
    \A c \in Conn :
        Translated(c) =>
            /\ Forwards(c, "width") /\ outbound[c].width = ClaimedSize(req[c].WIDTH)
            /\ Forwards(c, "height") /\ outbound[c].height = ClaimedSize(req[c].HEIGHT)

\* C9: when http.Get returns a transport error the request is answered 502
\* with the error text, and nothing of a backend response is relayed.
C9_TransportError ==
    \A c \in Conn :
        (pc[c] = "done" /\ handler[c] = "GetMap" /\ bresp[c].err # "") =>
            /\ resp[c].status = 502
            /\ resp[c].body = << "text", "render backend error: ", bresp[c].err >>
            /\ calls[c] = 1

C9_Witness ==
    \E c \in Conn :
        /\ pc[c] = "done"
        /\ handler[c] = "GetMap"
        /\ bresp[c].err = "connection refused"
        /\ resp[c].status = 502

\* C10: when the backend answers with a status other than 200 the client
\* receives 502 and the backend's body, unchanged.
C10_Non200 ==
    \A c \in Conn :
        (pc[c] = "done" /\ handler[c] = "GetMap" /\ bresp[c].err = ""
            /\ bresp[c].status # 200) =>
            /\ resp[c].status = 502
            /\ resp[c].body = bresp[c].body

C10_Witness ==
    \E c \in Conn :
        /\ pc[c] = "done"
        /\ handler[c] = "GetMap"
        /\ bresp[c].status = 404
        /\ bresp[c].body = << "bytes", "no such file" >>
        /\ resp[c].status = 502
        /\ resp[c].body = << "bytes", "no such file" >>

\* C11: when the backend answers 200 the client receives 200, Content-Type
\* image/png whatever type the backend declared, and the backend's body.
C11_Success ==
    \A c \in Conn :
        (pc[c] = "done" /\ handler[c] = "GetMap" /\ bresp[c].err = ""
            /\ bresp[c].status = 200) =>
            /\ resp[c].status = 200
            /\ resp[c].ctype = "image/png"
            /\ resp[c].body = bresp[c].body

C11_Witness ==
    \E c \in Conn :
        /\ pc[c] = "done"
        /\ handler[c] = "GetMap"
        /\ bresp[c].status = 200
        /\ bresp[c].ctype = "text/plain"
        /\ resp[c].ctype = "image/png"
        /\ resp[c].body = << "bytes", "PNG" >>

\* C12: a GetMap request sends at most one GET to the render backend,
\* whatever comes back (exactly one once it is answered); any other request
\* sends none.
C12_NoRetry ==
    \A c \in Conn :
        /\ calls[c] <= 1
        /\ (pc[c] = "done" /\ handler[c] = "GetMap") => calls[c] = 1
        /\ (pc[c] = "done" /\ handler[c] # "GetMap") =>
               calls[c] = 0 /\ outbound[c] = NoCall

C12_Witness ==
    \E c, d \in Conn :
        /\ pc[c] = "done" /\ handler[c] = "GetMap"
        /\ bresp[c].err # "" /\ calls[c] = 1
        /\ pc[d] = "done" /\ handler[d] = "health" /\ calls[d] = 0

\* a connection whose GetMap is blocked on the backend, or was answered 502
BlockedOrFailed(c) ==
    \/ pc[c] = "awaitBackend"
    \/ pc[c] = "done" /\ handler[c] = "GetMap" /\ resp[c].status = 502

\* C13: while one GetMap request is blocked on the backend, or after it was
\* answered 502, every other connection still accepts a request and runs
\* the handler of the request it holds, and the connection that answered 502
\* goes on to its next request.
C13_Independent ==
    \A c \in Conn :
        BlockedOrFailed(c) =>
            /\ \A d \in Conn \ { c } :
                 /\ pc[d] = "idle" => ENABLED Arrive(d, BaseRequests)
                 /\ pc[d] = "received" => ENABLED (wmsHandler(d) \/ healthHandler(d))
            /\ pc[c] = "done" => ENABLED Complete(c)

C13_Witness ==
    \E c \in Conn : \E d \in Conn \ { c } :
        /\ pc[c] = "awaitBackend"
        /\ pc[d] = "received"
        /\ req[d].REQUEST = "GetMap"
        /\ ENABLED wmsHandler(d)

\* C14: once handleGetMap has returned, no backend response body is open:
\* it was closed after a 200 relay and after a non-200 relay, and a transport
\* error left none.
C14_BodyReleased ==
    \A c \in Conn :
        /\ pc[c] = "done" => respBody[c] # "open"
        /\ (pc[c] = "done" /\ handler[c] = "GetMap") =>
               respBody[c] = (IF bresp[c].err = "" THEN "closed" ELSE "none")

C14_Witness ==
    \E c \in Conn :
        /\ pc[c] = "done"
        /\ handler[c] = "GetMap"
        /\ bresp[c].status = 404
        /\ respBody[c] = "closed"

\* everything the gateway holds for one connection
ConnState(c) ==
    << pc[c], req[c], handler[c], outbound[c], calls[c], bresp[c],
       respBody[c], resp[c] >>

\* C15: no step of any request changes the process-wide Config, a step
\* changes the state of one connection at most, and two GetMap requests with
\* the same path and query send the same parameters to the backend, whatever
\* was handled before or is handled at the same time.
C15_Stateless ==
    [][ /\ config' = config
        /\ \A c \in Conn : \A d \in Conn \ { c } :
             /\ ConnState(c)' = ConnState(c) \/ ConnState(d)' = ConnState(d)
             /\ (Translated(c)' /\ Translated(d)' /\ req'[c] = req'[d]) =>
                    outbound'[c] = outbound'[d]
      ]_vars

C15_Witness ==
    \E c \in Conn : \E d \in Conn \ { c } :
        /\ pc[c] = "done" /\ handler[c] = "GetMap"
        /\ pc[d] = "awaitBackend"
        /\ req[c] = req[d]
        /\ req[c].dataset # << >>
        /\ clock > 0
        /\ outbound[c] = outbound[d]

\* the CRS parameter, SRS standing in only when CRS is empty
EffectiveCRS(c) == IF req[c].CRS # "" THEN req[c].CRS ELSE req[c].SRS
EffectiveMercator(c) == Upper(EffectiveCRS(c)) \in { "EPSG:3857", "EPSG:900913" }

\* a GetMap request whose BBOX is four numbers
FourNumbers(c) ==
    /\ Translated(c)
    /\ Len(BBoxFields(c)) = 4
    /\ \A i \in 1..4 : IsNumber(BBoxFields(c)[i])

BBoxNumber(c, i) == BBoxFields(c)[i][1].num

\* the value a forwarded "%f" text denotes
Denoted(t) == Dec(t.s, t.w, t.u * 10)

\* C16 as stated: the CRS that decides is CRS, SRS only when CRS is empty;
\* when it is not a Web Mercator identifier the four numbers are forwarded
\* with their values and order unchanged.
C16_Unchanged ==
    \A c \in Conn :
        (FourNumbers(c) /\ ~EffectiveMercator(c)) =>
            /\ Forwards(c, "bbox")
            /\ \A i \in 1..4 : Denoted(outbound[c].bbox[i]) = BBoxNumber(c, i)

\* C16 as amended: the CRS that decides is CRS, SRS only when CRS is empty;
\* when it is not a Web Mercator identifier the four numbers are forwarded
\* in their order, each written with six decimals (rounded to nearest), so a
\* number of at most six decimals keeps its value; when it is one, the
\* numbers are converted.
C16_PassThrough ==
    \A c \in Conn :
        FourNumbers(c) =>
            /\ Forwards(c, "bbox")
            /\ IF EffectiveMercator(c)
               THEN outbound[c].bbox =
                      << FormatF(m2lon(BBoxNumber(c, 1))), FormatF(m2lat(BBoxNumber(c, 2))),
                         FormatF(m2lon(BBoxNumber(c, 3))), FormatF(m2lat(BBoxNumber(c, 4))) >>
               ELSE /\ outbound[c].bbox =
                         << FormatF(BBoxNumber(c, 1)), FormatF(BBoxNumber(c, 2)),
                            FormatF(BBoxNumber(c, 3)), FormatF(BBoxNumber(c, 4)) >>
                    /\ \A i \in 1..4 :
                         BBoxNumber(c, i).f % 10 = 0 =>
                             Denoted(outbound[c].bbox[i]) = BBoxNumber(c, i)

C16_Witness ==
    \E c \in Conn :
        /\ FourNumbers(c)
        /\ req[c].CRS = "EPSG:4326"
        /\ req[c].SRS = "EPSG:3857"
        /\ BBoxNumber(c, 1) = NumA
        /\ BBoxNumber(c, 2) = NumC
        /\ outbound[c].bbox[1] = [s |-> 1, w |-> 2000000, u |-> 0]
        /\ outbound[c].bbox[2] = [s |-> 1, w |-> 12, u |-> 345679]

\* C17: a non-empty STYLES is forwarded as styles, without palette;
\* otherwise a non-empty PALETTE is forwarded as palette, without styles;
\* otherwise neither is forwarded.  Never both.
C17_StyleSelector ==
    \A c \in Conn :
        Translated(c) =>
            /\ ~(Forwards(c, "styles") /\ Forwards(c, "palette"))
            /\ IF req[c].STYLES # ""
               THEN Forwards(c, "styles") /\ outbound[c].styles = req[c].STYLES
               ELSE /\ ~Forwards(c, "styles")
                    /\ IF req[c].PALETTE # ""
                       THEN Forwards(c, "palette") /\ outbound[c].palette = req[c].PALETTE
                       ELSE ~Forwards(c, "palette")

C17_Witness ==
    \E c \in Conn :
        /\ Translated(c)
        /\ req[c].STYLES = "boxfill/rainbow"
        /\ req[c].PALETTE = "viridis"
        /\ outbound[c].styles = "boxfill/rainbow"
        /\ ~Forwards(c, "palette")

\* a text parameter forwarded under key k iff it is non-empty, with its value
TextForwarded(c, k, x) ==
    IF x = "" THEN ~Forwards(c, k) ELSE Forwards(c, k) /\ outbound[c][k] = x

\* C18: the render call has width and height always, and each of layer,
\* file, bbox, colorscalerange, time, styles or palette, and gamma exactly
\* when its resolved value is non-empty; time, colorscalerange, the style
\* selector and gamma carry the client's text as it came.
C18_OnlyNonEmpty ==
    \A c \in Conn :
        Translated(c) =>
            /\ Forwards(c, "width") /\ Forwards(c, "height")
            /\ Forwards(c, "layer") <=>
                 \/ TwoOrMore(req[c].dataset) /\ FromEnd(req[c].dataset, 1) # << >>
                 \/ req[c].LAYERS # << >>
            /\ Forwards(c, "file") <=>
                 \/ OneSegment(req[c].dataset)
                 \/ TwoOrMore(req[c].dataset) /\ FromEnd(req[c].dataset, 0) # << >>
            /\ Forwards(c, "bbox") <=>
                 (req[c].BBOX # << >> /\ Len(BBoxFields(c)) = 4)
            /\ \A k \in { "layer", "file", "bbox" } :
                 Forwards(c, k) => outbound[c][k] # << >>
            /\ TextForwarded(c, "colorscalerange", req[c].COLORSCALERANGE)
            /\ TextForwarded(c, "time", req[c].TIME)
            /\ TextForwarded(c, "gamma",
                 IF req[c].GAMMA # "" THEN req[c].GAMMA ELSE req[c].gamma)
            /\ \A k \in { "styles", "palette" } :
                 Forwards(c, k) => outbound[c][k] # ""
            /\ Forwards(c, "styles") \/ Forwards(c, "palette") <=>
                 (req[c].STYLES # "" \/ req[c].PALETTE # "")
            /\ DOMAIN outbound[c] \subseteq
                 { "layer", "file", "width", "height", "bbox", "colorscalerange",
                   "time", "styles", "palette", "gamma" }

C18_Witness ==
    \E c \in Conn :
        /\ Translated(c)
        /\ req[c].TIME # ""
        /\ req[c].COLORSCALERANGE = ""
        /\ req[c].GAMMA = ""
        /\ req[c].gamma = "abc"
        /\ DOMAIN outbound[c] = { "width", "height", "time", "gamma" }
        /\ outbound[c].gamma = "abc"

\* the step in which connection c answers a request whose REQUEST is rq
Answers(c, rq) ==
    /\ pc[c] = "received"
    /\ req[c].route = "wms"
    /\ req[c].REQUEST = rq
    /\ pc'[c] # "received"

\* C19: every GetCapabilities request is answered at once with status 200
\* and a text/xml document whose time dimension has exactly 17 entries, the
\* first the clock of the call truncated to the hour, each next one 3 hours
\* after the one before, the last 48 hours after the first; no backend call
\* is made.  (The clock counts half-hours.)
C19_Capabilities ==
    [][\A c \in Conn :
         Answers(c, "GetCapabilities") =>
            /\ pc'[c] = "done"
            /\ resp'[c].status = 200
            /\ resp'[c].ctype = "text/xml"
            /\ resp'[c].body[1] = "WMS_Capabilities"
            /\ LET dimension == resp'[c].body[2]
               IN  /\ Len(dimension) = 17
                   /\ dimension[1] % 2 = 0
                   /\ dimension[1] <= clock /\ clock < dimension[1] + 2
                   /\ \A k \in 1..16 : dimension[k + 1] = dimension[k] + 3 * 2
                   /\ dimension[17] = dimension[1] + 48 * 2
            /\ calls'[c] = 0
            /\ outbound'[c] = NoCall]_vars

C19_Witness ==
    \E c \in Conn :
        /\ pc[c] = "done"
        /\ req[c].REQUEST = "GetCapabilities"
        /\ clock = 1
        /\ resp[c].status = 200
        /\ resp[c].body[1] = "WMS_Capabilities"
        /\ resp[c].body[2][1] = 0
        /\ resp[c].body[2][17] = 96
        /\ calls[c] = 0

\* a finished GetFeatureInfo request
FeatureInfoDone(c) ==
    /\ pc[c] \in { "awaitBackend", "done" }
    /\ req[c].route = "wms"
    /\ req[c].REQUEST = "GetFeatureInfo"

\* C20 as stated: every GetFeatureInfo request is answered with status 200
\* and a JSON body whose dataset is the raw dataset path, whose value is
\* null and whose info is "not implemented", without a backend call.
C20_NotImplemented ==
    \A c \in Conn :
        FeatureInfoDone(c) =>
            /\ pc[c] = "done"
            /\ resp[c].status = 200
            /\ resp[c].ctype = "application/json"
            /\ resp[c].body[1] = "json"
            /\ resp[c].body[2] =
                 [dataset |-> req[c].dataset, value |-> "null", info |-> "not implemented"]
            /\ calls[c] = 0

\* C20 as amended: every GetFeatureInfo request, whatever its dataset path
\* and query parameters, is answered with status 200 and a JSON body whose
\* dataset is the raw dataset path, whose value is null and whose info is
\* "FeatureInfo not implemented yet", without a backend call.
C20_Stub ==
    \A c \in Conn :
        FeatureInfoDone(c) =>
            /\ pc[c] = "done"
            /\ resp[c].status = 200
            /\ resp[c].ctype = "application/json"
            /\ resp[c].body[1] = "json"
            /\ DOMAIN resp[c].body[2] = { "dataset", "value", "info" }
            /\ resp[c].body[2].dataset = req[c].dataset
            /\ resp[c].body[2].value = "null"
            /\ resp[c].body[2].info = "FeatureInfo not implemented yet"
            /\ calls[c] = 0
            /\ outbound[c] = NoCall

C20_Witness ==
    \E c \in Conn :
        /\ pc[c] = "done"
        /\ req[c].REQUEST = "GetFeatureInfo"
        /\ req[c].dataset = << ".", ".", "/", "a" >>
        /\ req[c].BBOX = << JunkTok >>
        /\ resp[c].status = 200
        /\ resp[c].body[2].dataset = << ".", ".", "/", "a" >>
        /\ resp[c].body[2].info = "FeatureInfo not implemented yet"

\* two numbers of degrees that differ by at most tol * 1e-7
Within(a, b, tol) ==
    IF a.s # b.s
    THEN a.w = 0 /\ b.w = 0 /\ a.f + b.f <= tol
    ELSE /\ a.w - b.w \in { -1, 0, 1 }
         /\ LET d == (a.w - b.w) * 10000000 + (a.f - b.f)
            IN  -tol <= d /\ d <= tol

\* the longitude/latitude box whose projection the request carries
ProjectedFrom(c, lon1, lat1, lon2, lat2) ==
    /\ FourNumbers(c)
    /\ EffectiveMercator(c)
    /\ BBoxNumber(c, 1) = lon2m(lon1)
    /\ BBoxNumber(c, 2) = lat2m(lat1)
    /\ BBoxNumber(c, 3) = lon2m(lon2)
    /\ BBoxNumber(c, 4) = lat2m(lat2)

TimerMatches(playing, id, scheduled, period) ==
    IF playing
    THEN id # NoTimer /\ scheduled = { [id |-> id, period |-> period] }
    ELSE id = NoTimer /\ scheduled = { }

\* C22: after stop (the Stop button or Esc), whatever the calls and timer
\* ticks before it, the animation is not playing, no interval timer is
\* scheduled and the current frame is the first.
C22_StopResets ==
    lastCall \in { "stop", "Escape" } =>
        /\ ~isPlaying
        /\ animationInterval = NoTimer
        /\ intervals = { }
        /\ currentIndex = 0

C22_Witness ==
    /\ lastCall = "Escape"
    /\ Len(times) = 2
    /\ loopEnabled = FALSE
    /\ speed = Fraction(2, 1)
    /\ currentTime = times[1]
    /\ ~isPlaying /\ intervals = { } /\ currentIndex = 0

\* C23: with at least one time step loaded, a Space key press outside an
\* INPUT element, and a click on the play/pause button, toggles playback: a
\* paused animation becomes playing with one timer running, a playing one
\* becomes paused with none, and the frame index stays as it is.  A Space
\* key press on an INPUT element changes nothing.
C23_SpaceToggles ==
    [][ /\ (lastCall' \in { "Space", "togglePlayPause" } /\ Len(times) >= 1) =>
              /\ isPlaying' = ~isPlaying
              /\ TimerMatches(isPlaying', animationInterval', intervals',
                              (baseInterval * speed.den) \div speed.num)
              /\ currentIndex' = currentIndex
              /\ times' = times
        /\ lastCall' = "SpaceOnInput" => UNCHANGED << animVars, mapVars >>
      ]_vars

C23_Witness ==
    /\ lastCall = "Space"
    /\ isPlaying
    /\ Len(times) = 2
    /\ currentIndex = 1
    /\ intervals = { [id |-> 1, period |-> 500] }

\* C24: with n >= 1 time steps and looping enabled, nextFrame (the right
\* arrow, a timer tick) takes the index from i to (i+1) mod n and
\* previousFrame (the left arrow) from i to (i-1) mod n; neither changes
\* whether the animation is playing, nor its timer.
C24_FramesWrap ==
    [][ (Len(times) >= 1 /\ loopEnabled) =>
          /\ lastCall' \in { "nextFrame", "ArrowRight", "tick" } =>
                /\ currentIndex' = (currentIndex + 1) % Len(times)
                /\ isPlaying' = isPlaying /\ intervals' = intervals
          /\ lastCall' \in { "previousFrame", "ArrowLeft" } =>
                /\ currentIndex' = (currentIndex - 1) % Len(times)
                /\ isPlaying' = isPlaying /\ intervals' = intervals
      ]_vars

C24_Witness ==
    /\ lastCall = "tick"
    /\ loopEnabled
    /\ Len(times) = MaxTimes
    /\ currentIndex = 0
    /\ currentTime = times[1]
    /\ weatherLayer.TIME = times[1]
    /\ isPlaying

C29_IndexInRange ==
    /\ IF Len(times) = 0 THEN currentIndex = 0
       ELSE 0 <= currentIndex /\ currentIndex < Len(times)
    /\ \A index \in -2..(MaxTimes + 1) :
         (index < 0 \/ index >= Len(times)) =>
             goToFrame(Animation, TheMap, index) = Both(Animation, TheMap)

C29_Witness ==
    /\ lastCall = "setTimes"
    /\ Len(times) = 1
    /\ currentIndex = 0
    /\ currentTime = TimeList(MaxTimes)[MaxTimes]
    /\ isPlaying

\* C30: at most one interval timer is scheduled, and isPlaying holds exactly
\* when there is one, the one animationInterval names; play() changes
\* nothing when the animation is playing or has no time step; with looping
\* disabled, nextFrame on the last frame pauses playback, cancels the timer
\* and leaves the index on the last frame.
C30_OneTimer ==
    /\ Cardinality(intervals) <= 1
    /\ isPlaying <=> animationInterval # NoTimer
    /\ isPlaying <=> intervals # { }
    /\ \A t \in intervals : t.id = animationInterval
    /\ (isPlaying \/ Len(times) = 0) => play(Animation) = Animation
    /\ (~loopEnabled /\ Len(times) >= 1 /\ currentIndex = Len(times) - 1) =>
         LET after == nextFrame(Animation, TheMap).a
         IN  /\ ~after.isPlaying
             /\ after.animationInterval = NoTimer
             /\ after.intervals = { }
             /\ after.currentIndex = Len(times) - 1

C30_Witness ==
    /\ lastCall = "tick"
    /\ ~loopEnabled
    /\ Len(times) = 2
    /\ currentIndex = 1
    /\ ~isPlaying
    /\ intervals = { }

\* the start-up is over
Settled == startup \in { "ready", "failed" }

\* what holds of the start-up in every state
StartUpBounded ==
    /\ attempts <= 1 + maxRetries
    /\ retryCount <= maxRetries
    /\ attempts = IF startup = "waiting" THEN retryCount ELSE retryCount + 1
    /\ startup = "ready" =>
         /\ Len(times) >= 1
         /\ times = availableTimes
         /\ ~loading.error
         /\ \A k \in 1..Len(timeouts) : timeouts[k].kind # "retry"
    /\ startup = "failed" =>
         /\ attempts = 1 + maxRetries
         /\ Len(times) = 0
         /\ loading.error
         /\ \A k \in 1..Len(timeouts) : timeouts[k].kind # "retry"
    /\ ~Settled => (Len(times) = 0 /\ ~loading.error)

\* C26: loadWeatherData calls fetchAvailableTimes at most 1 + maxRetries = 4
\* times and retryCount never exceeds maxRetries; when every fetch resolves
\* and every timeout runs, the start-up ends, either with the timeline set
\* from a non-empty time list or, after the fourth failed attempt, in the
\* error state of handleInitError, never both; once it has ended no further
\* attempt is made.
C26_StartUpEnds ==
    /\ []StartUpBounded
    /\ <>Settled
    /\ [][Settled => (startup' = startup /\ attempts' = attempts
                        /\ retryCount' = retryCount)]_vars

C26_Witness ==
    /\ startup = "failed"
    /\ attempts = 4
    /\ retryCount = 3
    /\ loading.error
    /\ statusMessage.text = "Failed to load weather data"

\* C27: while updateTime has never been called the map has no weather
\* layer, whatever parameter, opacity and visibility changes and animation
\* controls came before.
C27_NoLayerBeforeTimes ==
    ~timeUpdates => weatherLayer = NoLayer

\* C28: a message shown by showStatus is hidden by its own timeout, five
\* seconds after it was shown, or by hideStatus: never by the timeout of a
\* message shown before it.
C28_StatusStays ==
    ~(statusMessage.hidden /\ statusMessage.cutShort)

=============================================================================
